---- MODULE Spec2Model ----
(***************************************************************************)
(* A model of zapr: the lazy log sink (lazySink), the ordered application  *)
(* of options (configWithOptions) and the key-value conversion of the      *)
(* concrete sink (sink.sweeten).                                           *)
(***************************************************************************)
EXTENDS Integers, Sequences, FiniteSets, TLC

\* ------------------------------------------------------------------ bounds
NThreads == 2
MaxNodes == 3
MaxAttach == 2

Threads == 1..NThreads
Nodes == 1..MaxNodes
\* The node NewLazyLogSink returns.
Root == 1
\* The sinks a caller attaches.
Bases == {"A", "B"}
\* The arguments callers pass to the derivations.
NameArgs == {"N"}
ValuesArgs == {<<"k", "v">>}
DepthArgs == {-1, 0, 1}
\* The caller-skip depth logr passes to the root's Init.
RootCallDepth == 1
\* The levels callers ask about.
Levels == 0..1

VARIABLES
  used,        \* number of lazySink objects allocated: nodes 1..used exist
  sink,        \* lazySink.sink: the backing sink (an atomic pointer)
  info,        \* lazySink.info.CallDepth
  mu,          \* lazySink.mu: 0 when unlocked, else the goroutine holding it
  set,         \* lazySink.set
  name,        \* lazySink.name
  depth,       \* lazySink.depth
  values,      \* lazySink.values
  children,    \* lazySink.children
  stack,       \* each goroutine's call stack, the running frame last
  logCalls,    \* the Info/Error call made last on a lazy node, and whether
               \* an attached sink received its entry
  attachOrder  \* the sinks of the SetSink calls on the root, as they locked
               \* it: the first ones, up to MaxAttach, and the last one

VARIABLES
  options,     \* configWithOptions: the caller's option sequence
  optPc,       \* configWithOptions: "start" before the call, "done" after,
               \* "twice" after a second call with the same sequence
  applied,     \* the options in the order they were applied
  config,      \* the config configWithOptions returns
  passed,      \* the option sequence as the caller built it
  previous     \* the config the call before the last returned

optVars == <<options, optPc, applied, config, passed, previous>>

VARIABLES
  development, \* Config.Development of the concrete sink's logger
  errKey,      \* sink.errKey
  fields,      \* the fields attached to the sink's logger by WithValues
  call         \* the last call made on the concrete sink and its outcome

sinkVars == <<development, errKey, fields, call>>

lazyVars == <<used, sink, info, mu, set, name, depth, values, children, stack,
              logCalls, attachOrder>>

VARIABLES
  sinks,       \* the concrete sink objects (*sink), in allocation order
  deriv,       \* the last derivation or Init made on a concrete sink object
  entry        \* the last entry written through a concrete sink object

objVars == <<sinks, deriv, entry>>

VARIABLES
  backing,     \* the sink object each lazy node stores: its index in sinks, 0
               \* for the no-op sink
  stored       \* that object as it was when the node stored it

attachVars == <<backing, stored>>

VARIABLES
  lines,       \* Metrics.lines: the counter of each (logger name, level)
  bytes,       \* Metrics.bytes: the counter of each (logger name, level)
  errors,      \* Metrics.errors: the counter of each logger name
  clones,      \* the number of metricsEncoder objects sharing the Metrics
  encodings,   \* the EncodeEntry calls made, in order, with the engine's results
  returned     \* what the last EncodeEntry call returned

metricVars == <<lines, bytes, errors, clones, encodings, returned>>

VARIABLES
  encoders,        \* the registry of Encoders: the encoder bound to each name
  callerEncoders,  \* the registry of CallerEncoders
  encoderTarget,   \* *f.e of an encoderFlag: the encoder it selected
  callerTarget,    \* *f.e of a callerEncoderFlag
  regCall          \* the last registry call, its error and the state before it

regVars == <<encoders, callerEncoders, encoderTarget, callerTarget, regCall>>

VARIABLES
  stdKind,     \* the constructor of the *log.Logger: "Info" or "Error"
  stdWrites,   \* the byte slices written to it, in order
  stdCalls,    \* the calls made on the sink, in order
  stdRet       \* what the last Write returned

stdVars == <<stdKind, stdWrites, stdCalls, stdRet>>

\* The variables of the other components.
restVars == <<objVars, attachVars, metricVars, regVars, stdVars>>

\* ------------------------------------------------------------------ sinks
\* A sink value: the sink a caller attached (base) with the derivations
\* applied to it, in order. The discard sink has no base.
noopLogSink == [base |-> "discard", ops |-> <<>>]
discard == noopLogSink

NameOp(n) == [op |-> "name", name |-> n, values |-> <<>>, depth |-> 0]
ValuesOp(kvs) == [op |-> "values", name |-> "", values |-> kvs, depth |-> 0]
DepthOp(d) == [op |-> "depth", name |-> "", values |-> <<>>, depth |-> d]

\* LogSink.WithName, WithValues, WithCallDepth: the discard sink returns
\* itself, an attached sink returns a new sink with the context added.
SinkWithName(s, n) ==
  IF s = discard THEN discard ELSE [s EXCEPT !.ops = Append(@, NameOp(n))]
SinkWithValues(s, kvs) ==
  IF s = discard THEN discard ELSE [s EXCEPT !.ops = Append(@, ValuesOp(kvs))]
SinkWithCallDepth(s, d) ==
  IF s = discard THEN discard ELSE [s EXCEPT !.ops = Append(@, DepthOp(d))]

NoopEnabledAsSink(level) == level <= 0
\* noopLogSink.Enabled: false for every level.
NoopEnabled(level) == FALSE
\* sink.maxLevel of the sinks callers attach.
maxLevel(s) == IF s.base = "A" THEN 0 ELSE 1
\* sink.Enabled of an attached sink: level <= maxLevel.
SinkEnabled(s, level) ==
  IF s = discard THEN NoopEnabled(level) ELSE level <= maxLevel(s)

\* noopLogSink.Underlying: nil (here "nil"); an attached sink returns its
\* logger, named here by the sink's base.
NoopUnderlying == "nil"
SinkUnderlying(s) == IF s = discard THEN NoopUnderlying ELSE s.base

NoopInfoRecords(e) == [e EXCEPT !.received = TRUE]
\* noopLogSink.Info and Error: the entry is dropped.
NoopInfo(e) == [e EXCEPT !.received = FALSE]
\* Info and Error of a sink: the discard sink drops the entry, an attached
\* sink receives it.
SinkInfo(s, e) ==
  IF s = discard THEN NoopInfo(e) ELSE [e EXCEPT !.received = TRUE]

\* ------------------------------------------------------------- lazySink
\* lazySink.Enabled and Underlying: forwarded to the backing sink.
Enabled(n, level) == SinkEnabled(sink[n], level)
Underlying(n) == SinkUnderlying(sink[n])

WithBufferedNameInverted(s, n) ==
  IF name[n] = "" THEN SinkWithName(s, name[n]) ELSE s
\* The derivations SetSink applies to the sink it is given, for node n.
WithBufferedName(s, n) == IF name[n] # "" THEN SinkWithName(s, name[n]) ELSE s
WithBufferedValues(s, n) ==
  IF Len(values[n]) > 0 THEN SinkWithValues(s, values[n]) ELSE s
WithBufferedDepth(s, n) ==
  IF depth[n] > 0 THEN SinkWithCallDepth(s, depth[n]) ELSE s
SetSinkDerive(s, n) ==
  WithBufferedDepth(WithBufferedValues(WithBufferedName(s, n), n), n)

\* A call frame of a goroutine.
Frame(op, s, pc, snk, nm, kvs, d) ==
  [op |-> op, s |-> s, pc |-> pc, sink |-> snk, i |-> 1, child |-> 0,
   name |-> nm, values |-> kvs, depth |-> d]
SetSinkFrame(s, snk) == Frame("SetSink", s, "lock", snk, "", <<>>, 0)

Idle(t) == stack[t] = <<>>
Top(t) == stack[t][Len(stack[t])]
Pop(t) == SubSeq(stack[t], 1, Len(stack[t]) - 1)
SetTop(t, f) == [stack EXCEPT ![t] = Append(Pop(t), f)]
IsDerive(f) == f.op \in {"WithValues", "WithName", "WithCallDepth"}

\* The sequence s as a set.
Range(s) == {s[i] : i \in 1..Len(s)}
\* The nodes a caller holds: the root and the children a derivation returned.
Returned == {Root} \cup UNION {Range(children[n]) : n \in 1..used}

\* A log call: the node it is made on, Info or Error, whether it is made
\* before any SetSink call, whether it is made while a SetSink call on the
\* root is running, and the backing sink it is forwarded to.
Entry(n, kind, early, snk) ==
  [node |-> n, kind |-> kind, early |-> early, sink |-> snk, received |-> FALSE,
   racing |-> FALSE]
NoEntry == Entry(0, "none", FALSE, discard)

LazyInit ==
  /\ used = 1
  /\ sink = [n \in Nodes |-> discard]
  /\ info = [n \in Nodes |-> IF n = Root THEN RootCallDepth + 1 ELSE 0]
  /\ mu = [n \in Nodes |-> 0]
  /\ set = [n \in Nodes |-> FALSE]
  /\ name = [n \in Nodes |-> ""]
  /\ depth = [n \in Nodes |-> 0]
  /\ values = [n \in Nodes |-> <<>>]
  /\ children = [n \in Nodes |-> <<>>]
  /\ stack = [t \in Threads |-> <<>>]
  /\ logCalls = NoEntry
  /\ attachOrder = <<>>

\* The receiver and the sink of the SetSink call a derivation makes on an
\* attached node: s.SetSink(*s.sink.Load()).
DeriveSetSinkCall(f, child) == SetSinkFrame(f.s, sink[f.s])

\* WithValues, WithName and WithCallDepth up to the SetSink call: s.mu is
\* locked, the child is created, initialised with s.info and given its
\* parameter; on an attached node, SetSink is called.
Derive(t, f) ==
  /\ Idle(t)
  /\ f.s \in Returned
  /\ used < MaxNodes
  /\ mu[f.s] = 0
  /\ mu' = [mu EXCEPT ![f.s] = t]
  /\ LET child == used + 1
         g == [f EXCEPT !.pc = "append", !.child = child]
     IN /\ used' = child
        /\ sink' = [sink EXCEPT ![child] = discard]
        /\ info' = [info EXCEPT ![child] = info[f.s] + 1]
        /\ name' = [name EXCEPT ![child] = f.name]
        /\ values' = [values EXCEPT ![child] = f.values]
        /\ depth' = [depth EXCEPT ![child] = f.depth]
        /\ stack' = [stack EXCEPT ![t] =
                       IF set[f.s] THEN <<g, DeriveSetSinkCall(f, child)>>
                                   ELSE <<g>>]
  /\ UNCHANGED <<optVars, sinkVars, restVars, set, children, logCalls, attachOrder>>

WithValues(t) ==
  \E n \in Nodes, kvs \in ValuesArgs :
    Derive(t, Frame("WithValues", n, "lock", discard, "", kvs, 0))

WithName(t) ==
  \E n \in Nodes, nm \in NameArgs :
    Derive(t, Frame("WithName", n, "lock", discard, nm, <<>>, 0))

WithCallDepth(t) ==
  \E n \in Nodes, d \in DepthArgs :
    Derive(t, Frame("WithCallDepth", n, "lock", discard, "", <<>>, d))

\* A goroutine calls SetSink on the root.
SetSink(t) ==
  \E b \in Bases :
    /\ Idle(t)
    /\ stack' = [stack EXCEPT ![t] = <<SetSinkFrame(Root, [base |-> b, ops |-> <<>>])>>]
    /\ UNCHANGED <<optVars, sinkVars, restVars, used, sink, info, mu, set, name, depth, values, children,
                   logCalls, attachOrder>>

\* The record of the SetSink calls with the call of sink b added: b is
\* appended, or takes the place of the last one when MaxAttach are recorded.
Recorded(order, b) ==
  IF Len(order) < MaxAttach THEN Append(order, b)
  ELSE [order EXCEPT ![Len(order)] = b]

\* SetSink from s.mu.Lock() to s.set = true. The call waits while the mutex
\* is held, by whichever goroutine (sync.Mutex is not reentrant); then the
\* sink is initialised, derived with the node's buffered parameters and
\* stored.
SetSinkStore(t) ==
  /\ ~Idle(t)
  /\ Top(t).op = "SetSink"
  /\ Top(t).pc = "lock"
  /\ mu[Top(t).s] = 0
  /\ mu' = [mu EXCEPT ![Top(t).s] = t]
  /\ LET f == Top(t)
         derived == SetSinkDerive(f.sink, f.s)
     IN /\ sink' = [sink EXCEPT ![f.s] = derived]
        /\ set' = [set EXCEPT ![f.s] = TRUE]
        /\ stack' = SetTop(t, [f EXCEPT !.pc = "children", !.sink = derived])
  /\ attachOrder' = IF Len(stack[t]) = 1
                    THEN Recorded(attachOrder, Top(t).sink.base)
                    ELSE attachOrder
  /\ UNCHANGED <<optVars, sinkVars, restVars, used, info, name, depth, values, children, logCalls>>

AppendChildDropped(cs, child) == cs
\* s.children = append(s.children, child).
AppendChild(cs, child) == Append(cs, child)

\* s.children = append(s.children, child); return child (s.mu is unlocked
\* on return).
DeriveReturn(t) ==
  /\ ~Idle(t)
  /\ IsDerive(Top(t))
  /\ Top(t).pc = "append"
  /\ children' = [children EXCEPT ![Top(t).s] = AppendChild(@, Top(t).child)]
  /\ mu' = [mu EXCEPT ![Top(t).s] = 0]
  /\ stack' = [stack EXCEPT ![t] = Pop(t)]
  /\ UNCHANGED <<optVars, sinkVars, restVars, used, sink, info, set, name, depth, values,
                 logCalls, attachOrder>>

\* for _, c := range s.children { c.SetSink(sink) }: the call on the next
\* child.
SetSinkChild(t) ==
  /\ ~Idle(t)
  /\ Top(t).op = "SetSink"
  /\ Top(t).pc = "children"
  /\ Top(t).i <= Len(children[Top(t).s])
  /\ LET f == Top(t)
     IN stack' = [stack EXCEPT ![t] =
                    Append(Append(Pop(t), [f EXCEPT !.i = f.i + 1]),
                           SetSinkFrame(children[f.s][f.i], f.sink))]
  /\ UNCHANGED <<optVars, sinkVars, restVars, used, sink, info, mu, set, name, depth, values, children,
                 logCalls, attachOrder>>

\* SetSink returns after the last child: s.mu is unlocked.
SetSinkReturn(t) ==
  /\ ~Idle(t)
  /\ Top(t).op = "SetSink"
  /\ Top(t).pc = "children"
  /\ Top(t).i > Len(children[Top(t).s])
  /\ mu' = [mu EXCEPT ![Top(t).s] = 0]
  /\ stack' = [stack EXCEPT ![t] = Pop(t)]
  /\ UNCHANGED <<optVars, sinkVars, restVars, used, sink, info, set, name, depth, values, children,
                 logCalls, attachOrder>>

\* lazySink.Info and lazySink.Error: the call is forwarded to the backing
\* sink loaded at the call.
Log(t, n, kind) ==
  /\ Idle(t)
  /\ n \in Returned
  /\ LET early == /\ attachOrder = <<>>
                  /\ \A u \in Threads : Idle(u) \/ stack[u][1].op # "SetSink"
         e == Entry(n, kind, early, sink[n])
         racing == \E u \in Threads : ~Idle(u) /\ stack[u][1].op = "SetSink"
     IN logCalls' = [SinkInfo(sink[n], e) EXCEPT !.racing = racing]
  /\ UNCHANGED <<optVars, sinkVars, restVars, used, sink, info, mu, set, name, depth, values,
                 children, stack, attachOrder>>

Info(t) == \E n \in Nodes : Log(t, n, "info")
Error(t) == \E n \in Nodes : Log(t, n, "error")

LazyNext ==
  \E t \in Threads :
    \/ WithValues(t)
    \/ WithName(t)
    \/ WithCallDepth(t)
    \/ SetSink(t)
    \/ DeriveReturn(t)
    \/ SetSinkStore(t)
    \/ SetSinkChild(t)
    \/ SetSinkReturn(t)
    \/ Info(t)
    \/ Error(t)

\* ------------------------------------------------ lazySink: properties
\* The goroutine t waits for, 0 when it waits for none: the holder of the
\* mutex its running frame is locking.
WaitsFor(t) ==
  IF ~Idle(t) /\ Top(t).pc = "lock" THEN mu[Top(t).s] ELSE 0

RECURSIVE WaitChain(_, _)
\* The goroutine reached from t by following WaitsFor k times.
WaitChain(t, k) ==
  IF k = 0 \/ t = 0 THEN t ELSE WaitChain(WaitsFor(t), k - 1)

\* t waits for a mutex that is only released after t has got it.
Deadlocked(t) == \E k \in 1..NThreads : WaitChain(t, k) = t

\* No call can take a further step: every goroutine has returned from its
\* call or waits for a mutex.
Quiescent == \A t \in Threads : Idle(t) \/ WaitsFor(t) # 0

\* No SetSink call has been made.
NoAttachYet ==
  /\ attachOrder = <<>>
  /\ \A t \in Threads : \A k \in 1..Len(stack[t]) : stack[t][k].op # "SetSink"

\* A SetSink call on the root has returned and none is running.
AttachDone ==
  /\ attachOrder # <<>>
  /\ \A t \in Threads : Idle(t) \/ stack[t][1].op # "SetSink"

\* The node c was derived from the node p.
DerivedFrom(c, p) ==
  \/ c \in Range(children[p])
  \/ \E t \in Threads : \E k \in 1..Len(stack[t]) :
       IsDerive(stack[t][k]) /\ stack[t][k].s = p /\ stack[t][k].child = c

Parent(n) == CHOOSE p \in 1..used : n \in Range(children[p])

RECURSIVE Path(_)
\* The nodes from the root to the node n, a node a caller holds.
Path(n) == IF n = Root THEN {Root} ELSE {n} \cup Path(Parent(n))

RECURSIVE ExpectedSink(_, _)
\* The sink b with the buffered parameters of the nodes from the root to n
\* applied in that order, each node's once.
ExpectedSink(n, b) ==
  IF n = Root THEN SetSinkDerive(b, Root)
  ELSE SetSinkDerive(ExpectedSink(Parent(n), b), n)

Attached(b) == [base |-> b, ops |-> <<>>]
CountName(ops, nm) ==
  Cardinality({i \in 1..Len(ops) : ops[i].op = "name" /\ ops[i].name = nm})
CountValues(ops, kvs) ==
  Cardinality({i \in 1..Len(ops) : ops[i].op = "values" /\ ops[i].values = kvs})

\* C1: a derivation on an attached node returns, and returns a child that
\* is attached: when the derivation is about to return, the child's backing
\* sink is the parent's backing sink derived with the child's parameter.
C1_DeriveOnAttachedReturnsAttachedChild ==
  \A t \in Threads :
    (~Idle(t) /\ IsDerive(stack[t][1]) /\ set[stack[t][1].s]) =>
      /\ ~Deadlocked(t)
      /\ Len(stack[t]) = 1 =>
           /\ set[stack[t][1].child]
           /\ sink[stack[t][1].child]
                = SetSinkDerive(sink[stack[t][1].s], stack[t][1].child)

\* C2: no call waits forever on a node's mutex: no goroutine waits for a
\* mutex whose release waits for that goroutine.
C2_NoCallWaitsForever == \A t \in Threads : ~Deadlocked(t)

\* C3: WithValues calls on the root racing with one SetSink call on it, and
\* no other derivation: once no call can take a further step, every call has
\* returned and each child is linked and attached, its values applied once.
C3_ConcurrentDeriveAttachedOnce ==
  (/\ Quiescent
   /\ Len(attachOrder) = 1
   /\ \A c \in 2..used : DerivedFrom(c, Root) /\ values[c] # <<>>) =>
    /\ \A t \in Threads : Idle(t)
    /\ \A c \in 2..used :
         /\ c \in Range(children[Root])
         /\ set[c]
         /\ sink[c] = [base |-> attachOrder[1], ops |-> <<ValuesOp(values[c])>>]

\* The node n was derived with the name "N" and the values ("k", "v"), one
\* derivation each.
NamedAndValued(n) ==
  /\ Cardinality({m \in Path(n) : name[m] = "N"}) = 1
  /\ Cardinality({m \in Path(n) : values[m] = <<"k", "v">>}) = 1
OnceEach(s) ==
  /\ s.base \in Bases
  /\ CountName(s.ops, "N") = 1
  /\ CountValues(s.ops, <<"k", "v">>) = 1

C5_ReattachRebindsAll ==
  (Quiescent /\ Len(attachOrder) >= 2) =>
    \A n \in Returned :
      sink[n] = ExpectedSink(n, Attached(attachOrder[Len(attachOrder)]))

\* C6: no entry an attached sink received comes from a log call made before
\* the first SetSink call.
C6_EarlyLogsDiscarded == ~(logCalls.early /\ logCalls.received)

C6_Witness ==
  /\ AttachDone
  /\ logCalls.early
  /\ ~logCalls.received

\* C7: while no SetSink call has been made, Enabled is false for every
\* level and Underlying is nil, on every node.
C7_UnattachedDisabled ==
  NoAttachYet =>
    \A n \in 1..used :
      /\ \A level \in Levels : ~Enabled(n, level)
      /\ Underlying(n) = "nil"

C7_Witness ==
  /\ NoAttachYet
  /\ used > 2
  /\ \A t \in Threads : Idle(t)

RECURSIVE ReferenceSink(_, _)
\* The sink b derived with the parameters of the nodes from the root to n,
\* in that order: each node's name when it has one, then its values when it
\* has some, then its depth when it is not 0.
ReferenceSink(n, b) ==
  LET p == IF n = Root THEN b ELSE ReferenceSink(Parent(n), b)
      named == IF name[n] = "" THEN p ELSE SinkWithName(p, name[n])
      valued == IF values[n] = <<>> THEN named ELSE SinkWithValues(named, values[n])
  IN IF depth[n] = 0 THEN valued ELSE SinkWithCallDepth(valued, depth[n])

\* The sink of the last SetSink call on the root.
LastAttached == Attached(attachOrder[Len(attachOrder)])

\* C16: after SetSink on the root has returned, the backing sink of every
\* node a caller holds is the attached sink derived with the parameters of
\* the nodes on its path, from the root down, and with nothing else.
C16_ChildDerivesFromParentSink ==
  AttachDone => \A n \in Returned : sink[n] = ReferenceSink(n, LastAttached)

\* C17: a log call made while a SetSink call on the root is running is
\* forwarded to the discard sink, or to an attached sink derived with all the
\* parameters of the nodes on the node's path, never to one that lacks some.
C17_LogNeverSeesPartialSink ==
  logCalls.racing =>
    \/ logCalls.sink = discard
    \/ \E b \in Bases : logCalls.sink = ReferenceSink(logCalls.node, Attached(b))

\* C19: every lazy node stores a CallDepth one more than the depth passed to
\* the root's Init.
C19_NodesStoreRootDepthPlusOne ==
  \A n \in 1..used : info[n] = RootCallDepth + 1

\* The children whose derivation has not returned.
InFlight ==
  UNION {{stack[t][k].child : k \in {j \in 1..Len(stack[t]) : IsDerive(stack[t][j])}} :
           t \in Threads}
\* The nodes a derivation returned.
EverReturned == (2..used) \ InFlight

RECURSIVE ReachableFrom(_, _)
\* The nodes reached from the nodes of S through at most k child lists.
ReachableFrom(S, k) ==
  IF k = 0 THEN S
  ELSE ReachableFrom(S \cup UNION {Range(children[n]) : n \in S}, k - 1)

\* C20: the nodes reachable from the root through the child lists are the
\* root and the nodes the derivations returned, each a new node listed once,
\* under the node it was derived from; after SetSink on the root with no
\* call running, all of them are set.
C20_ReturnedChildrenLinked ==
  /\ ReachableFrom({Root}, MaxNodes) = {Root} \cup EverReturned
  /\ \A c \in EverReturned :
       Cardinality({<<p, i>> \in (1..used) \X (1..MaxNodes) :
                      i <= Len(children[p]) /\ children[p][i] = c}) = 1
  /\ \A p \in 1..used : \A i \in 1..Len(children[p]) : children[p][i] > p
  /\ (attachOrder # <<>> /\ \A t \in Threads : Idle(t)) =>
       \A n \in ReachableFrom({Root}, MaxNodes) : set[n]

C20_Witness ==
  /\ attachOrder # <<>>
  /\ \A t \in Threads : Idle(t)
  /\ used = 3
  /\ children[1] = <<2>>
  /\ children[2] = <<3>>
  /\ depth[2] = 0 /\ name[2] = "" /\ values[2] = <<>>
  /\ set[3]

\* C21: after SetSink on the root has returned, the backing sink of a child
\* made by WithCallDepth(d), d not 0, is its parent's backing sink with
\* WithCallDepth(d) applied, for positive and for negative d.
C21_NonZeroDepthApplied ==
  AttachDone =>
    \A c \in Returned \ {Root} :
      depth[c] # 0 => sink[c] = SinkWithCallDepth(sink[Parent(c)], depth[c])

\* ------------------------------------------------------- configWithOptions
MaxOptions == 3

\* An option: what it sets (kind and the value of its kind) and its weight;
\* pos is its index in the caller's sequence.
Option(kind, level, key, flag, first, w) ==
  [kind |-> kind, level |-> level, key |-> key, flag |-> flag, first |-> first,
   w |-> w, pos |-> 0]

\* optionFunc: weight 0; weightedOptionFunc: the weight given.
optionFunc(kind, level, key, flag, first) == Option(kind, level, key, flag, first, 0)
weightedOptionFunc(w, kind, level, key, flag, first) ==
  Option(kind, level, key, flag, first, w)

WithLevel(level) == optionFunc("WithLevel", level, "", FALSE, 0)
WithFunctionKey(key) == optionFunc("WithFunctionKey", 0, key, FALSE, 0)
WithStacktraceEnabled(enabled) == optionFunc("WithStacktraceEnabled", 0, "", enabled, 0)
WithSampler(first) == weightedOptionFunc(1, "WithSampler", 0, "", FALSE, first)
WithDevelopmentOptionsUnweighted ==
  optionFunc("WithDevelopmentOptions", 0, "", FALSE, 0)
WithDevelopmentOptions ==
  weightedOptionFunc(1, "WithDevelopmentOptions", 0, "", FALSE, 0)

\* The options callers pass.
OptionArgs ==
  {WithLevel(1), WithLevel(5), WithDevelopmentOptions, WithFunctionKey("fn"),
   WithStacktraceEnabled(FALSE), WithSampler(10), WithSampler(20)}

\* The defaults of configWithOptions.
configDefaults ==
  [level |-> 0, functionKey |-> "", encoder |-> "json", levelEncoder |-> "upper",
   durationEncoder |-> "secs", enableStacktrace |-> FALSE, development |-> FALSE,
   sampleFirst |-> 100]

\* opt.apply: the option's function on the config.
apply(o, c) ==
  CASE o.kind = "WithLevel" -> [c EXCEPT !.level = o.level]
    [] o.kind = "WithFunctionKey" -> [c EXCEPT !.functionKey = o.key]
    [] o.kind = "WithStacktraceEnabled" -> [c EXCEPT !.enableStacktrace = o.flag]
    [] o.kind = "WithSampler" -> [c EXCEPT !.sampleFirst = o.first]
    [] o.kind = "WithDevelopmentOptions" ->
         [c EXCEPT !.level = 3, !.functionKey = "func", !.encoder = "console",
                   !.levelEncoder = "color", !.durationEncoder = "string",
                   !.enableStacktrace = TRUE, !.development = TRUE]

byWeightDescLessOrEqual(s, i, k) == s[i].w >= s[k].w
\* byWeightDesc.Less (indices from 1).
byWeightDescLess(s, i, k) == s[i].w > s[k].w
\* byWeightDesc.Swap.
byWeightDescSwap(s, i, k) == [s EXCEPT ![i] = s[k], ![k] = s[i]]

\* sort.IsSorted: no element is less than the one before it.
IsSorted(s) == \A i \in 2..Len(s) : ~byWeightDescLess(s, i, i - 1)

RECURSIVE InsertionInner(_, _)
\* The inner loop of the insertion sort sort.Stable runs on a sequence of at
\* most 20 elements: s[j] moves down while it is less than the one before.
InsertionInner(s, j) ==
  IF j > 1 /\ byWeightDescLess(s, j, j - 1)
  THEN InsertionInner(byWeightDescSwap(s, j, j - 1), j - 1)
  ELSE s

RECURSIVE InsertionSort(_, _)
InsertionSort(s, i) ==
  IF i > Len(s) THEN s ELSE InsertionSort(InsertionInner(s, i), i + 1)

\* sort.Stable.
Stable(s) == InsertionSort(s, 2)

\* The caller's slice after sortedOptions returns, and the slice returned.
Slices(caller, ret) == [caller |-> caller, ret |-> ret]
\* sort.Stable on the caller's slice itself.
SortedInPlace(s) == Slices(Stable(s), Stable(s))
\* sortedOptions on an unsorted slice: the elements are appended to a new
\* slice, and sort.Stable runs on that one.
SortedCopy(s) == Slices(s, Stable(s))
sortedOptionsCall(s) == IF IsSorted(s) THEN Slices(s, s) ELSE SortedCopy(s)

\* sortedOptions: the sequence itself when sorted, else a sorted copy.
sortedOptions(s) == sortedOptionsCall(s).ret

RECURSIVE ApplyAll(_, _)
\* for _, o := range sortedOptions(options) { o.apply(c) }
ApplyAll(s, c) == IF s = <<>> THEN c ELSE ApplyAll(Tail(s), apply(Head(s), c))

\* The caller's options, each with its index.
Indexed(s) == [i \in 1..Len(s) |-> [s[i] EXCEPT !.pos = i]]
Unindexed(s) == [i \in 1..Len(s) |-> [s[i] EXCEPT !.pos = 0]]

RECURSIVE SeqsUpTo(_)
\* The sequences of at most n options.
SeqsUpTo(n) ==
  IF n = 0 THEN {<<>>}
  ELSE SeqsUpTo(n - 1)
         \cup {Append(s, o) : s \in {q \in SeqsUpTo(n - 1) : Len(q) = n - 1},
                              o \in OptionArgs}

OptIdle ==
  /\ options = <<>>
  /\ optPc = "idle"
  /\ applied = <<>>
  /\ config = configDefaults
  /\ passed = <<>>
  /\ previous = configDefaults

OptInit ==
  /\ options \in SeqsUpTo(MaxOptions)
  /\ optPc = "start"
  /\ applied = <<>>
  /\ config = configDefaults
  /\ passed = options
  /\ previous = configDefaults

\* configWithOptions(options), a first and a second time on the caller's
\* slice: the config is built from the defaults by the options in the order
\* sortedOptions returns; the caller's slice is as sortedOptions leaves it.
configWithOptions ==
  LET r == sortedOptionsCall(Indexed(options))
  IN /\ optPc \in {"start", "done"}
     /\ options' = Unindexed(r.caller)
     /\ applied' = r.ret
     /\ previous' = config
     /\ config' = ApplyAll(sortedOptions(Indexed(options)), configDefaults)
     /\ optPc' = IF optPc = "start" THEN "done" ELSE "twice"
     /\ UNCHANGED <<passed, lazyVars, sinkVars, restVars>>

\* The caller passes another option sequence.
NewOptions ==
  /\ optPc \in {"done", "twice"}
  /\ options' \in SeqsUpTo(MaxOptions)
  /\ passed' = options'
  /\ optPc' = "start"
  /\ applied' = <<>>
  /\ config' = configDefaults
  /\ previous' = configDefaults
  /\ UNCHANGED <<lazyVars, sinkVars, restVars>>

OptNext == configWithOptions \/ NewOptions

\* --------------------------------------------- configWithOptions: properties
\* The options of the sequence s that have the weight w, in the order of s.
OfWeight(s, w) == SelectSeq(s, LAMBDA o : o.w = w)
\* The options in non-increasing weight order, ties in input order.
ByWeightStable(s) == OfWeight(s, 1) \o OfWeight(s, 0)
\* The positions of the options of a kind.
Positions(kind) == {i \in 1..Len(options) : options[i].kind = kind}
Last(S) == CHOOSE i \in S : \A k \in S : k <= i

\* C8: the options are applied in non-increasing weight order, ties in input
\* order, and of the options of equal weight that set one field the last of
\* the input sets the value.
C8_StableWeightOrder ==
  optPc = "done" =>
    /\ applied = ByWeightStable(Indexed(options))
    /\ config = ApplyAll(ByWeightStable(Indexed(options)), configDefaults)
    /\ \A i \in 1..Len(applied), k \in 1..Len(applied) :
         i < k => /\ applied[i].w >= applied[k].w
                  /\ applied[i].w = applied[k].w => applied[i].pos < applied[k].pos
    /\ Positions("WithSampler") # {} =>
         config.sampleFirst = options[Last(Positions("WithSampler"))].first
    /\ (Positions("WithLevel") # {} /\ Positions("WithDevelopmentOptions") = {}) =>
         config.level = options[Last(Positions("WithLevel"))].level

C8_Witness ==
  /\ optPc = "done"
  /\ options = <<WithLevel(5), WithSampler(10), WithSampler(20)>>
  /\ config.sampleFirst = 20
  /\ applied[3].pos = 1

\* C9: with the development bundle in the sequence, a WithLevel option sets
\* the level wherever it stands, and the fields of the bundle that no other
\* option sets keep the bundle's values; [WithLevel(1),
\* WithDevelopmentOptions(), WithLevel(5)] gives the level 5.
C9_LevelOverridesBundle ==
  (optPc = "done" /\ Positions("WithDevelopmentOptions") # {}) =>
    /\ Positions("WithLevel") # {} =>
         config.level = options[Last(Positions("WithLevel"))].level
    /\ Positions("WithLevel") = {} => config.level = 3
    /\ Positions("WithFunctionKey") = {} => config.functionKey = "func"
    /\ Positions("WithStacktraceEnabled") = {} => config.enableStacktrace
    /\ config.encoder = "console"
    /\ config.levelEncoder = "color"
    /\ config.durationEncoder = "string"
    /\ config.development
    /\ options = <<WithLevel(1), WithDevelopmentOptions, WithLevel(5)>> =>
         config.level = 5

C9_Witness ==
  /\ optPc = "done"
  /\ options = <<WithLevel(1), WithDevelopmentOptions, WithLevel(5)>>
  /\ config.level = 5
  /\ config.development

\* C23: configWithOptions leaves the caller's option sequence as the caller
\* built it; the options applied are a permutation of it, the sequence
\* itself when it is in non-increasing weight order and a sorted one
\* otherwise; a second call with the same sequence builds an equal config.
C23_CallerOptionsUnchanged ==
  optPc \in {"done", "twice"} =>
    /\ options = passed
    /\ Len(applied) = Len(passed)
    /\ Range(applied) = Range(Indexed(passed))
    /\ IsSorted(applied)
    /\ IsSorted(Indexed(passed)) => applied = Indexed(passed)
    /\ optPc = "twice" => config = previous

C23_Witness ==
  /\ optPc = "twice"
  /\ passed = <<WithLevel(1), WithDevelopmentOptions, WithSampler(10)>>
  /\ options = passed
  /\ applied[1].pos = 2
  /\ config = previous
  /\ config.level = 1

\* ------------------------------------------------------------ sink.sweeten
MaxKvs == 3
MaxFields == 1
\* Config.Level of DefaultConfig: the sink's maxLevel.
DefaultLevel == 0

\* The elements of a key-value sequence: a string, a zap Field, nil, or a
\* value of another type.
String(v) == [type |-> "string", v |-> v]
Field(k) == [type |-> "Field", v |-> k]
Nil == [type |-> "nil", v |-> ""]
Other == [type |-> "int", v |-> "42"]
KvArgs == {String("k"), Field("f"), Nil, Other}

RECURSIVE KvsUpTo(_)
KvsUpTo(n) ==
  IF n = 0 THEN {<<>>}
  ELSE KvsUpTo(n - 1)
         \cup {Append(s, e) : s \in {q \in KvsUpTo(n - 1) : Len(q) = n - 1},
                              e \in KvArgs}

\* The result of a conversion: the fields it returns, and whether it
\* panicked instead of returning.
Result(fs, panicked) == [fields |-> fs, panicked |-> panicked]

\* sweetenDPanic: Logger.DPanic logs the message and, on a logger built
\* with zap.Development() (newZapLogger, Config.Development), panics.
sweetenDPanic(dev) == dev

\* reflect.TypeOf(key).String() on the key of the default case: the type of
\* a nil interface value is nil, and the call of String on it panics.
TypeOfString(key) == IF key.type = "nil" THEN "panic" ELSE key.type

RECURSIVE sweetenFrom(_, _, _, _)
\* The loop of sink.sweeten from index i with the fields collected so far.
sweetenFrom(kvs, i, fs, dev) ==
  IF i > Len(kvs) THEN Result(fs, FALSE)
  ELSE CASE kvs[i].type = "string" ->
              IF i = Len(kvs)
              THEN Result(fs, sweetenDPanic(dev))
              ELSE sweetenFrom(kvs, i + 2,
                               Append(fs, [key |-> kvs[i].v, value |-> kvs[i + 1]]), dev)
         [] kvs[i].type = "Field" ->
              IF sweetenDPanic(dev) THEN Result(fs, TRUE)
              ELSE sweetenFrom(kvs, i + 1,
                               Append(fs, [key |-> kvs[i].v, value |-> kvs[i]]), dev)
         [] OTHER ->
              IF TypeOfString(kvs[i]) = "panic" \/ sweetenDPanic(dev)
              THEN Result(fs, TRUE)
              ELSE sweetenFrom(kvs, i + 2, fs, dev)

\* sink.sweeten.
sweeten(kvs, dev) == sweetenFrom(kvs, 1, <<>>, dev)

\* A call on the concrete sink: its key-value arguments, the fields of the
\* entry written or of the logger returned, whether it panicked, and the
\* conversion it ran (swept: whether sweeten was called, on input, returning
\* out).
Call(op, kvs, res) ==
  [op |-> op, kvs |-> kvs, fields |-> res.fields, panicked |-> res.panicked,
   swept |-> FALSE, input |-> <<>>, out |-> <<>>]
Swept(c, input, r) == [c EXCEPT !.swept = TRUE, !.input = input, !.out = r.fields]

SinkIdle ==
  /\ development = FALSE
  /\ errKey = ""
  /\ fields = <<>>
  /\ call = Call("none", <<>>, Result(<<>>, FALSE))

\* NewLogSink(c): c.Development and c.ErrorKey are the caller's.
SinkInit ==
  /\ development \in BOOLEAN
  /\ errKey \in {"", "error"}
  /\ fields = <<>>
  /\ call = Call("none", <<>>, Result(<<>>, FALSE))

\* sink.Info at a level the sink logs: the entry is written with the fields
\* of the logger and of the call when the logger's Check keeps it (a sampled
\* logger may drop it).
SinkInfoCall ==
  \E kvs \in KvsUpTo(MaxKvs), level \in Levels, kept \in BOOLEAN :
    /\ call.op = "none"
    /\ call' = IF level > DefaultLevel \/ ~kept
               THEN Call("Info", kvs, Result(<<>>, FALSE))
               ELSE LET r == sweeten(kvs, development)
                    IN Swept(Call("Info", kvs, Result(fields \o r.fields, r.panicked)),
                             kvs, r)
    /\ UNCHANGED <<development, errKey, fields, lazyVars, optVars, restVars>>

\* sink.Error: the error is added under errKey when there is one.
SinkErrorCall ==
  \E kvs \in KvsUpTo(MaxKvs), err \in {"nil", "err"}, kept \in BOOLEAN :
    /\ call.op = "none"
    /\ call' = IF ~kept
               THEN Call("Error", kvs, Result(<<>>, FALSE))
               ELSE LET all == IF errKey # "" /\ err # "nil"
                               THEN kvs \o <<String(errKey), String(err)>>
                               ELSE kvs
                        r == sweeten(all, development)
                    IN Swept(Call("Error", kvs, Result(fields \o r.fields, r.panicked)),
                             all, r)
    /\ UNCHANGED <<development, errKey, fields, lazyVars, optVars, restVars>>

\* sink.WithValues: the sink returned logs with the converted fields added;
\* the calls that follow are made on it.
SinkWithValuesCall ==
  \E kvs \in KvsUpTo(MaxKvs) :
    LET r == sweeten(kvs, development)
    IN /\ call.op = "none"
       /\ Len(fields) + Len(r.fields) <= MaxFields
       /\ call' = Swept(Call("WithValues", kvs, r), kvs, r)
       /\ fields' = IF r.panicked THEN fields ELSE fields \o r.fields
       /\ UNCHANGED <<development, errKey, lazyVars, optVars, restVars>>

\* The caller goes on after the call (after recovering, when it panicked).
SinkReturn ==
  /\ call.op # "none"
  /\ call' = Call("none", <<>>, Result(<<>>, FALSE))
  /\ UNCHANGED <<development, errKey, fields, lazyVars, optVars, restVars>>

SinkNext == SinkInfoCall \/ SinkErrorCall \/ SinkWithValuesCall \/ SinkReturn

\* C10: Info, Error and WithValues on the concrete sink return without a
\* panic for every key-value sequence and every configuration.
C10_MalformedKvsNeverPanic == ~call.panicked

RECURSIVE ReferenceScan(_)
\* The reference scan of a key-value sequence, from its head: a string key
\* with a value gives the field (key, value); a string key in last position
\* is dropped and ends the scan; a Field is emitted unchanged and consumes
\* one element; any other key is dropped with the element after it.
ReferenceScan(kvs) ==
  IF kvs = <<>> THEN <<>>
  ELSE LET k == Head(kvs)
           rest == Tail(kvs)
       IN IF k.type = "string"
          THEN IF rest = <<>> THEN <<>>
               ELSE <<[key |-> k.v, value |-> Head(rest)]>> \o ReferenceScan(Tail(rest))
          ELSE IF k.type = "Field"
          THEN <<[key |-> k.v, value |-> k]>> \o ReferenceScan(rest)
          ELSE IF rest = <<>> THEN <<>> ELSE ReferenceScan(Tail(rest))

\* C11: sweeten returns, for every key-value sequence, exactly the fields of
\* the reference scan.
C11_SweetenMatchesReference ==
  call.swept => (~call.panicked /\ call.out = ReferenceScan(call.input))

\* ------------------------------------------------- sink: the derivations
MaxSinks == 3
\* The CallDepth of the RuntimeInfo logr passes to Init.
InfoArgs == {0, 1}

\* zap's Logger.Named: the name is added to the logger's name (its segments,
\* joined by "."), an empty name changes nothing.
Named(nm, n) == IF n = "" THEN nm ELSE Append(nm, n)

\* A zap logger: its name, the fields attached by With, and its caller skip.
Logger(nm, fs, skip) == [name |-> nm, fields |-> fs, skip |-> skip]
\* Logger.With and Logger.WithOptions(zap.AddCallerSkip(n)).
LoggerWith(l, fs) == [l EXCEPT !.fields = @ \o fs]
AddCallerSkip(l, n) == [l EXCEPT !.skip = @ + n]

\* A sink object: the fields of the struct, and ctx, the fields the
\* WithValues calls on its derivation path attached.
SinkObject(underlying, logger, callDepth, d, ctx) ==
  [underlying |-> underlying, logger |-> logger, info |-> callDepth, depth |-> d,
   ctx |-> ctx]

\* NewLogSink: logger is underlying, info and depth are zero.
NewLogSink ==
  SinkObject(Logger(<<>>, <<>>, 0), Logger(<<>>, <<>>, 0), 0, 0, <<>>)

\* sink.Init on the object o, in place.
InitObject(o, i) ==
  [o EXCEPT !.info = i,
            !.logger = AddCallerSkip(o.underlying, i + o.depth)]

\* What sink.WithValues, sink.WithName and sink.WithCallDepth (depth not 0)
\* build from the receiver o: a copy, the receiver is left alone.
ObjWithValues(o, kvs) ==
  LET fs == sweeten([i \in 1..Len(kvs) |-> String(kvs[i])], FALSE).fields
  IN [o EXCEPT !.logger = LoggerWith(@, fs), !.ctx = @ \o fs]
ObjWithName(o, n) ==
  LET v == [o EXCEPT !.underlying.name = Named(@, n)]
  IN InitObject(v, v.info)
ObjWithCallDepth(o, d) ==
  InitObject([o EXCEPT !.depth = @ + d], o.info)

Derivation(op, recv, res, before) ==
  [op |-> op, recv |-> recv, res |-> res, before |-> before]
NoDerivation == Derivation("none", 0, 0, NewLogSink)
Written(via, l) == [via |-> via, name |-> l.name, fields |-> l.fields]
NoneWritten == Written(0, Logger(<<>>, <<>>, 0))

ObjIdle ==
  /\ sinks = <<>>
  /\ deriv = NoDerivation
  /\ entry = NoneWritten

ObjInit ==
  /\ sinks = <<NewLogSink>>
  /\ deriv = NoDerivation
  /\ entry = NoneWritten

\* The variables sink's methods leave alone.
notObj == <<lazyVars, optVars, sinkVars, attachVars, metricVars, regVars, stdVars>>

\* sink.Init(info).
sink_Init ==
  \E r \in 1..Len(sinks), i \in InfoArgs :
    /\ sinks' = [sinks EXCEPT ![r] = InitObject(@, i)]
    /\ deriv' = Derivation("Init", r, r, sinks[r])
    /\ UNCHANGED <<entry, notObj>>

\* sink.WithValues: a copy whose logger has the converted fields added.
sink_WithValues ==
  \E r \in 1..Len(sinks), kvs \in ValuesArgs :
    /\ Len(sinks) < MaxSinks
    /\ sinks' = Append(sinks, ObjWithValues(sinks[r], kvs))
    /\ deriv' = Derivation("WithValues", r, Len(sinks) + 1, sinks[r])
    /\ UNCHANGED <<entry, notObj>>

\* sink.WithName: a copy whose underlying logger is named, initialised
\* again with its info.
sink_WithName ==
  \E r \in 1..Len(sinks), n \in NameArgs :
    /\ Len(sinks) < MaxSinks
    /\ sinks' = Append(sinks, ObjWithName(sinks[r], n))
    /\ deriv' = Derivation("WithName", r, Len(sinks) + 1, sinks[r])
    /\ UNCHANGED <<entry, notObj>>

\* sink.WithCallDepth: the receiver when depth is 0, else a copy with the
\* depth added, initialised again with the receiver's info.
sink_WithCallDepth ==
  \E r \in 1..Len(sinks), d \in DepthArgs :
    IF d = 0
    THEN /\ deriv' = Derivation("WithCallDepth", r, r, sinks[r])
         /\ UNCHANGED <<sinks, entry, notObj>>
    ELSE /\ Len(sinks) < MaxSinks
         /\ sinks' = Append(sinks, ObjWithCallDepth(sinks[r], d))
         /\ deriv' = Derivation("WithCallDepth", r, Len(sinks) + 1, sinks[r])
         /\ UNCHANGED <<entry, notObj>>

\* sink.Info with no key-value pairs, at an enabled level: the entry is
\* written by the sink's logger.
sink_Info ==
  \E r \in 1..Len(sinks) :
    /\ entry' = Written(r, sinks[r].logger)
    /\ UNCHANGED <<sinks, deriv, notObj>>

ObjNext ==
  sink_Init \/ sink_WithValues \/ sink_WithName \/ sink_WithCallDepth \/ sink_Info

\* C12: each derivation on the concrete sink returns a sink object that is
\* not the receiver, and leaves the receiver as it was.
C12_DerivationReturnsNewSink ==
  deriv.op \in {"WithValues", "WithName", "WithCallDepth"} =>
    /\ deriv.res # deriv.recv
    /\ sinks[deriv.recv] = deriv.before

\* C18: every entry written through a sink object carries the fields the
\* WithValues calls on its derivation path attached.
C18_DerivedKeepsValues ==
  entry.via # 0 => entry.fields = sinks[entry.via].ctx

\* ------------------------------------- lazySink.SetSink on sink objects
\* The lazy tree built by one goroutine and attached to concrete sink
\* objects: the backing sink of a node is the object backing[n] of sinks.
MaxObjects == 6

AttachIdle ==
  /\ backing = [n \in Nodes |-> 0]
  /\ stored = [n \in Nodes |-> NewLogSink]

\* The variables the sequential calls on the lazy tree leave alone.
notAttach == <<sink, mu, stack, logCalls, attachOrder, optVars, sinkVars,
               deriv, entry, metricVars, regVars, stdVars>>

\* WithValues, WithName and WithCallDepth on a node that is not attached:
\* the child is initialised with the receiver's info, takes the parameter
\* and is appended to the receiver's children.
lazyDerive(p, n, kvs, d) ==
  LET child == used + 1
  IN /\ used < MaxNodes
     /\ ~set[p]
     /\ used' = child
     /\ info' = [info EXCEPT ![child] = info[p] + 1]
     /\ name' = [name EXCEPT ![child] = n]
     /\ values' = [values EXCEPT ![child] = kvs]
     /\ depth' = [depth EXCEPT ![child] = d]
     /\ children' = [children EXCEPT ![p] = Append(@, child)]
     /\ UNCHANGED <<set, sinks, attachVars, notAttach>>

lazyWithValues == \E p \in 1..used, kvs \in ValuesArgs : lazyDerive(p, "", kvs, 0)
lazyWithName == \E p \in 1..used, n \in NameArgs : lazyDerive(p, n, <<>>, 0)
lazyWithCallDepth == \E p \in 1..used, d \in DepthArgs : lazyDerive(p, "", <<>>, d)

\* The sink objects, the object the call holds, and what the nodes stored.
Attaching(heap, at, b, st) == [heap |-> heap, at |-> at, backing |-> b, stored |-> st]
\* sink = sink.WithX(...): a new object, which the call holds from then on.
Derived(a, o) == [a EXCEPT !.heap = Append(@, o), !.at = Len(a.heap) + 1]

RECURSIVE lazySetSink(_, _), SetSinkChildren(_, _, _, _)
\* lazySink.SetSink(sink) on node n, a.at being the object passed: Init on
\* that object in place, the buffered name, values and depth applied, the
\* result stored, then SetSink on every child with the stored object.
lazySetSink(a, n) ==
  LET inited == [a EXCEPT !.heap[a.at] = InitObject(@, info[n])]
      named == IF name[n] # ""
               THEN Derived(inited, ObjWithName(inited.heap[inited.at], name[n]))
               ELSE inited
      valued == IF Len(values[n]) > 0
                THEN Derived(named, ObjWithValues(named.heap[named.at], values[n]))
                ELSE named
      deepened == IF depth[n] > 0
                  THEN Derived(valued, ObjWithCallDepth(valued.heap[valued.at], depth[n]))
                  ELSE valued
      storing == [deepened EXCEPT !.backing[n] = deepened.at,
                                  !.stored[n] = deepened.heap[deepened.at]]
  IN SetSinkChildren(storing, children[n], 1, storing.at)
SetSinkChildren(a, cs, i, at) ==
  IF i > Len(cs) THEN a
  ELSE SetSinkChildren(lazySetSink([a EXCEPT !.at = at], cs[i]), cs, i + 1, at)

\* The sinks attached: a new sink, or one made from it by WithValues.
AttachArgs == {NewLogSink} \cup {ObjWithValues(NewLogSink, kvs) : kvs \in ValuesArgs}

\* SetSink on the root with a sink object allocated for the call.
lazyAttach ==
  \E o \in AttachArgs :
    LET a == lazySetSink(Attaching(Append(sinks, o), Len(sinks) + 1, backing, stored), Root)
    IN /\ Len(sinks) + used <= MaxObjects
       /\ sinks' = a.heap
       /\ backing' = a.backing
       /\ stored' = a.stored
       /\ set' = [n \in Nodes |-> set[n] \/ n \in ReachableFrom({Root}, MaxNodes)]
       /\ UNCHANGED <<used, info, name, values, depth, children, notAttach>>

AttachNext == lazyWithValues \/ lazyWithName \/ lazyWithCallDepth \/ lazyAttach

\* C22: after SetSink on the root has returned, the object each node stored
\* as its backing sink has the info, the caller skip and the fields it had
\* when the node stored it.
C22_StoredSinkUnchanged ==
  \A n \in Nodes :
    set[n] =>
      /\ sinks[backing[n]].info = stored[n].info
      /\ sinks[backing[n]].logger = stored[n].logger

\* --------------------------------------------------------- metricsEncoder
MaxEncodes == 3
MaxClones == 2
\* Entry.LoggerName and Entry.Level.String() of the entries encoded.
LoggerNames == {"", "a"}
LevelNames == {"info", "error"}
\* The lengths of the buffers the wrapped encoder returns.
BufLens == {1, 2}
\* The errors the wrapped encoder returns; "nil" is no error.
EncodeErrs == {"nil", "failed"}

\* prometheus Counter.Inc and Counter.Add.
Inc(c) == c + 1
AddOne(c, n) == c + 1
Add(c, n) == c + n

\* What the wrapped encoder's EncodeEntry returns: a buffer (its length; 0
\* is nil) and an error.
Encoded(b, err) == [b |-> b, err |-> err]
NothingEncoded == Encoded(0, "nil")
Encoding(nm, lvl, res) == [name |-> nm, level |-> lvl, b |-> res.b, err |-> res.err]

MetricsIdle ==
  /\ lines = [k \in LoggerNames \X LevelNames |-> 0]
  /\ bytes = [k \in LoggerNames \X LevelNames |-> 0]
  /\ errors = [nm \in LoggerNames |-> 0]
  /\ clones = 0
  /\ encodings = <<>>
  /\ returned = NothingEncoded

\* NewMetrics and NewMetricsEncoder.
NewMetricsEncoder ==
  /\ lines = [k \in LoggerNames \X LevelNames |-> 0]
  /\ bytes = [k \in LoggerNames \X LevelNames |-> 0]
  /\ errors = [nm \in LoggerNames |-> 0]
  /\ clones = 1
  /\ encodings = <<>>
  /\ returned = NothingEncoded

notMetrics == <<lazyVars, optVars, sinkVars, objVars, attachVars, regVars, stdVars>>

\* metricsEncoder.Clone: a new encoder on the same Metrics.
Clone ==
  /\ clones < MaxClones
  /\ clones' = clones + 1
  /\ UNCHANGED <<lines, bytes, errors, encodings, returned, notMetrics>>

\* metricsEncoder.EncodeEntry on any of the encoders: the wrapped encoder
\* returns a buffer of length n, or fails and returns what it returns then
\* (a buffer or nil).
EncodeEntry ==
  \E nm \in LoggerNames, lvl \in LevelNames, n \in BufLens \cup {0},
     err \in EncodeErrs :
    LET res == Encoded(n, err)
    IN /\ clones > 0
       /\ Len(encodings) < MaxEncodes
       /\ err = "nil" => n > 0
       /\ encodings' = Append(encodings, Encoding(nm, lvl, res))
       /\ IF err # "nil"
          THEN /\ errors' = [errors EXCEPT ![nm] = Inc(@)]
               /\ returned' = Encoded(0, err)
               /\ UNCHANGED <<lines, bytes>>
          ELSE /\ lines' = [lines EXCEPT ![<<nm, lvl>>] = Inc(@)]
               /\ bytes' = [bytes EXCEPT ![<<nm, lvl>>] = Add(@, res.b)]
               /\ returned' = res
               /\ UNCHANGED errors
       /\ UNCHANGED <<clones, notMetrics>>

MetricsNext == Clone \/ EncodeEntry

\* The indices of the successful encodings with the name and level, and of
\* the failed encodings with the name.
Succeeded(nm, lvl) ==
  {i \in 1..Len(encodings) : /\ encodings[i].err = "nil"
                             /\ encodings[i].name = nm
                             /\ encodings[i].level = lvl}
Failed(nm) ==
  {i \in 1..Len(encodings) : encodings[i].err # "nil" /\ encodings[i].name = nm}

RECURSIVE SumLens(_)
\* The sum of the buffer lengths of the encodings with the indices in S.
SumLens(S) ==
  IF S = {} THEN 0
  ELSE LET i == CHOOSE k \in S : TRUE IN encodings[i].b + SumLens(S \ {i})

\* C13: the line, byte and error counters are the tallies of the successful
\* and failed encodings, and a failed encoding returns no buffer and the
\* engine's error.
C13_MetricsCountEncodings ==
  /\ \A nm \in LoggerNames, lvl \in LevelNames :
       /\ lines[<<nm, lvl>>] = Cardinality(Succeeded(nm, lvl))
       /\ bytes[<<nm, lvl>>] = SumLens(Succeeded(nm, lvl))
  /\ \A nm \in LoggerNames : errors[nm] = Cardinality(Failed(nm))
  /\ encodings # <<>> =>
       LET e == encodings[Len(encodings)]
       IN /\ returned.err = e.err
          /\ e.err # "nil" => returned.b = 0
          /\ e.err = "nil" => returned.b = e.b

C13_Witness ==
  /\ clones = MaxClones
  /\ Len(encodings) = 3
  /\ encodings[1].err = "nil" /\ encodings[1].b = 2
  /\ encodings[2].err # "nil" /\ encodings[2].b > 0
  /\ encodings[3].err = "nil" /\ encodings[3].name = encodings[1].name
  /\ encodings[3].level = encodings[1].level
  /\ returned.b = 1

\* ------------------------------------------------- the encoder registries
\* An encoder object (0 is none) and its Name().
EncoderIds == 1..5
EncoderName(e) ==
  CASE e = 1 -> "console" [] e = 2 -> "json" [] e = 3 -> "json"
    [] e = 4 -> "x" [] e = 5 -> "x"
CallerEncoderName(e) ==
  CASE e = 1 -> "short" [] e = 2 -> "full" [] e = 3 -> "full"
    [] e = 4 -> "x" [] e = 5 -> "x"
EncoderNames == {"console", "json", "x", "y"}
CallerEncoderNames == {"short", "full", "x", "y"}

\* The outcome of a registration: the registry and the error ("nil" is none).
Registered(reg, err) == [reg |-> reg, err |-> err]
RegisterOverwriting(reg, nm, e) ==
  Registered([reg EXCEPT ![nm] = e], IF reg[nm] # 0 THEN "already" ELSE "nil")
\* RegisterEncoder and RegisterCallerEncoder on the registry reg: a name
\* that is bound is refused, else the encoder is bound to it.
Register(reg, nm, e) ==
  IF reg[nm] # 0 THEN Registered(reg, "already")
  ELSE Registered([reg EXCEPT ![nm] = e], "nil")

\* The outcome of Set: the flag's target and the error.
Selected(target, err) == [target |-> target, err |-> err]
\* encoderFlag.Set and callerEncoderFlag.Set.
FlagSet(reg, target, nm) ==
  IF reg[nm] # 0 THEN Selected(reg[nm], "nil") ELSE Selected(target, "unknown")

RegCall(op, nm, e, err, reg, target) ==
  [op |-> op, name |-> nm, e |-> e, err |-> err, reg |-> reg, target |-> target]

\* The registries after the package's init functions.
RegIdle ==
  /\ encoders = [nm \in EncoderNames |->
                   IF nm = "console" THEN 1 ELSE IF nm = "json" THEN 2 ELSE 0]
  /\ callerEncoders = [nm \in CallerEncoderNames |->
                         IF nm = "short" THEN 1 ELSE IF nm = "full" THEN 2 ELSE 0]
  /\ encoderTarget = 0
  /\ callerTarget = 0
  /\ regCall = RegCall("none", "", 0, "nil", encoders, 0)

notReg == <<lazyVars, optVars, sinkVars, objVars, attachVars, metricVars, stdVars>>

RegisterEncoder ==
  \E e \in EncoderIds :
    LET r == Register(encoders, EncoderName(e), e)
    IN /\ encoders' = r.reg
       /\ regCall' = RegCall("RegisterEncoder", EncoderName(e), e, r.err,
                             encoders, encoderTarget)
       /\ UNCHANGED <<callerEncoders, encoderTarget, callerTarget, notReg>>

RegisterCallerEncoder ==
  \E e \in EncoderIds :
    LET r == Register(callerEncoders, CallerEncoderName(e), e)
    IN /\ callerEncoders' = r.reg
       /\ regCall' = RegCall("RegisterCallerEncoder", CallerEncoderName(e), e, r.err,
                             callerEncoders, callerTarget)
       /\ UNCHANGED <<encoders, encoderTarget, callerTarget, notReg>>

encoderFlag_Set ==
  \E nm \in EncoderNames :
    LET r == FlagSet(encoders, encoderTarget, nm)
    IN /\ encoderTarget' = r.target
       /\ regCall' = RegCall("encoderFlag.Set", nm, 0, r.err, encoders, encoderTarget)
       /\ UNCHANGED <<encoders, callerEncoders, callerTarget, notReg>>

callerEncoderFlag_Set ==
  \E nm \in CallerEncoderNames :
    LET r == FlagSet(callerEncoders, callerTarget, nm)
    IN /\ callerTarget' = r.target
       /\ regCall' = RegCall("callerEncoderFlag.Set", nm, 0, r.err,
                             callerEncoders, callerTarget)
       /\ UNCHANGED <<encoders, callerEncoders, encoderTarget, notReg>>

RegNext ==
  RegisterEncoder \/ RegisterCallerEncoder \/ encoderFlag_Set \/ callerEncoderFlag_Set

\* The registry and the flag target the last call worked on, after it.
RegAfter ==
  IF regCall.op \in {"RegisterEncoder", "encoderFlag.Set"} THEN encoders
  ELSE callerEncoders
TargetAfter ==
  IF regCall.op \in {"RegisterEncoder", "encoderFlag.Set"} THEN encoderTarget
  ELSE callerTarget

\* C14: registering a name that is bound returns an error and leaves the
\* registry as it was, registering a free name binds it; Set with a name
\* that is not bound returns an error and leaves the target as it was, Set
\* with a bound name selects the encoder bound to it.
C14_RegistryRejectsDuplicateAndUnknown ==
  /\ regCall.op \in {"RegisterEncoder", "RegisterCallerEncoder"} =>
       IF regCall.reg[regCall.name] # 0
       THEN regCall.err # "nil" /\ RegAfter = regCall.reg
       ELSE /\ regCall.err = "nil"
            /\ RegAfter = [regCall.reg EXCEPT ![regCall.name] = regCall.e]
  /\ regCall.op \in {"encoderFlag.Set", "callerEncoderFlag.Set"} =>
       /\ RegAfter = regCall.reg
       /\ IF regCall.reg[regCall.name] = 0
          THEN regCall.err # "nil" /\ TargetAfter = regCall.target
          ELSE regCall.err = "nil" /\ TargetAfter = regCall.reg[regCall.name]

C14_Witness ==
  /\ regCall.op = "RegisterEncoder"
  /\ regCall.e = 3
  /\ regCall.err # "nil"
  /\ encoders["json"] = 2
  /\ encoders["x"] = 5
  /\ encoderTarget = 5
  /\ callerTarget = 1

\* ------------------------------------------------------ the std loggers
MaxWrites == 2
MaxBytes == 3
\* The depth NewStdInfoLogger and NewStdErrorLogger add to the sink.
StdCallDepth == 4

\* The bytes written: a letter, a space and a newline.
Bytes == {"a", " ", "\n"}
IsSpace(c) == c \in {" ", "\n"}

RECURSIVE BytesUpTo(_)
BytesUpTo(n) ==
  IF n = 0 THEN {<<>>}
  ELSE BytesUpTo(n - 1)
         \cup {Append(b, c) : b \in {q \in BytesUpTo(n - 1) : Len(q) = n - 1},
                              c \in Bytes}

RECURSIVE TrimLeft(_)
TrimLeft(b) == IF b # <<>> /\ IsSpace(Head(b)) THEN TrimLeft(Tail(b)) ELSE b
RECURSIVE TrimRight(_)
TrimRight(b) ==
  IF b # <<>> /\ IsSpace(b[Len(b)]) THEN TrimRight(SubSeq(b, 1, Len(b) - 1)) ELSE b
TrimSpaceLeft(b) == TrimLeft(b)
\* bytes.TrimSpace.
TrimSpace(b) == TrimRight(TrimLeft(b))

\* A call on the sink s.WithCallDepth(4): infoFn(0, msg) or errFn(nil, msg).
StdCall(op, msg) ==
  [op |-> op, level |-> 0, err |-> "nil", msg |-> msg, kvs |-> <<>>,
   depth |-> StdCallDepth]
WriteResult(n, err) == [n |-> n, err |-> err]

StdIdle ==
  /\ stdKind = "none"
  /\ stdWrites = <<>>
  /\ stdCalls = <<>>
  /\ stdRet = WriteResult(0, "nil")

\* NewStdInfoLogger or NewStdErrorLogger.
NewStdLogger ==
  /\ stdKind \in {"Info", "Error"}
  /\ stdWrites = <<>>
  /\ stdCalls = <<>>
  /\ stdRet = WriteResult(0, "nil")

notStd == <<lazyVars, optVars, sinkVars, objVars, attachVars, metricVars, regVars>>

\* stdLogWriterFunc.Write.
Write ==
  \E b \in BytesUpTo(MaxBytes) :
    /\ stdKind # "none"
    /\ Len(stdWrites) < MaxWrites
    /\ stdWrites' = Append(stdWrites, b)
    /\ stdCalls' = Append(stdCalls, StdCall(stdKind, TrimSpace(b)))
    /\ stdRet' = WriteResult(Len(b), "nil")
    /\ UNCHANGED <<stdKind, notStd>>

\* The program makes another logger.
NewLogger ==
  /\ stdWrites # <<>>
  /\ stdKind' \in {"Info", "Error"}
  /\ stdWrites' = <<>>
  /\ stdCalls' = <<>>
  /\ stdRet' = WriteResult(0, "nil")
  /\ UNCHANGED notStd

StdNext == Write \/ NewLogger

\* The bytes of b from its first to its last byte that is not white space.
Trimmed(b) ==
  LET I == {i \in 1..Len(b) : ~IsSpace(b[i])}
  IN IF I = {} THEN <<>>
     ELSE SubSeq(b, CHOOSE i \in I : \A k \in I : i <= k,
                    CHOOSE i \in I : \A k \in I : k <= i)

\* C15: the sink gets one call for each write, in write order: Info at
\* level 0 or Error with a nil error, the trimmed bytes as the message, no
\* key-value pairs; the last write returned its input's length and no error.
C15_StdLoggerForwardsWrites ==
  /\ Len(stdCalls) = Len(stdWrites)
  /\ \A i \in 1..Len(stdWrites) :
       /\ stdCalls[i].op = stdKind
       /\ stdCalls[i].level = 0
       /\ stdCalls[i].err = "nil"
       /\ stdCalls[i].msg = Trimmed(stdWrites[i])
       /\ stdCalls[i].kvs = <<>>
  /\ stdWrites # <<>> =>
       stdRet = WriteResult(Len(stdWrites[Len(stdWrites)]), "nil")

C15_Witness ==
  /\ stdKind = "Error"
  /\ stdWrites = <<<<" ", "a", "\n">>, <<"a", " ", "a">>>>
  /\ stdCalls[1].msg = <<"a">>
  /\ stdRet.n = 3

RestIdle == ObjIdle /\ AttachIdle /\ MetricsIdle /\ RegIdle /\ StdIdle

\* ------------------------------------------------------------ specifications
vars == <<lazyVars, optVars, sinkVars, restVars>>

\* The lazy sink.
Init == LazyInit /\ OptIdle /\ SinkIdle /\ RestIdle
Next == LazyNext
Spec == Init /\ [][Next]_vars

\* configWithOptions on every option sequence.
InitOptions == LazyInit /\ OptInit /\ SinkIdle /\ RestIdle
NextOptions == OptNext
SpecOptions == InitOptions /\ [][NextOptions]_vars

\* The concrete sink on every key-value sequence.
InitSink == LazyInit /\ OptIdle /\ SinkInit /\ RestIdle
NextSink == SinkNext
SpecSink == InitSink /\ [][NextSink]_vars

\* The derivations of the concrete sink.
InitDerive == LazyInit /\ OptIdle /\ SinkIdle /\ ObjInit /\ AttachIdle /\ MetricsIdle /\ RegIdle /\ StdIdle
NextDerive == ObjNext
SpecDerive == InitDerive /\ [][NextDerive]_vars

\* The lazy sink attached to sink objects by one goroutine.
InitAttach == Init
NextAttach == AttachNext
SpecAttach == InitAttach /\ [][NextAttach]_vars

\* The metrics encoder.
InitMetrics == LazyInit /\ OptIdle /\ SinkIdle /\ ObjIdle /\ AttachIdle /\ NewMetricsEncoder /\ RegIdle /\ StdIdle
NextMetrics == MetricsNext
SpecMetrics == InitMetrics /\ [][NextMetrics]_vars

\* The encoder registries.
InitRegistry == Init
NextRegistry == RegNext
SpecRegistry == InitRegistry /\ [][NextRegistry]_vars

\* The std loggers.
InitStdLog ==
  LazyInit /\ OptIdle /\ SinkIdle /\ ObjIdle /\ AttachIdle /\ MetricsIdle /\ RegIdle
  /\ NewStdLogger
NextStdLog == StdNext
SpecStdLog == InitStdLog /\ [][NextStdLog]_vars

====
